---- MODULE Spec2Model ----
(***************************************************************************)
(* Model of json-to-javascript: the multiline classifier                   *)
(* shouldConvertMultiline and the jsonToJavascript pipeline of              *)
(* src/index.ts (serialize with marker substitution, wrap, beforePrettier, *)
(* marker resolution, prettier, return), and the script src/cli.ts.        *)
(*                                                                         *)
(* src/index.ts holds two definitions of jsonToJavascript.  Spec follows   *)
(* the first one (lines 1-246), the one that defines and exports           *)
(* shouldConvertMultiline, and runs the script on top of it.               *)
(* SpecFormatFirst follows the second one (lines 248-350), which formats   *)
(* before it resolves the markers.  SpecConcurrent runs two calls, of      *)
(* either definition, interleaved at the formatter await.                  *)
(*                                                                         *)
(* Text is a sequence of symbols.  A symbol is one character, except for   *)
(* the few fixed words the code treats as units (the marker prefix, the    *)
(* word dedent, the temporary ${ stand-in), which are one symbol each.     *)
(***************************************************************************)
EXTENDS Integers, Sequences, FiniteSets, TLC

NL == "\n"
CR == "\r"
TAB == "\t"
SQ == "'"
BS == "\\"
DQ == "\""
\* the backtick (a literal backtick cannot be written inside a TLA+ string)
BT == "BACKTICK"
DOLLAR == "$"
AMP == "&"
SP == " "
LBRACE == "{"

(* ---------------------------------------------------------------------- *)
(* Bounds of the checked instance                                          *)
(* ---------------------------------------------------------------------- *)
MaxLen == 3
MaxLenPlain == 5
MaxElemLen == 1

(* ---------------------------------------------------------------------- *)
(* JavaScript string primitives                                            *)
(* ---------------------------------------------------------------------- *)
Min(a, b) == IF a < b THEN a ELSE b

\* s.startsWith(p, i): p occurs in s at position i (1-based)
MatchAt(s, p, i) ==
    /\ i >= 1
    /\ i + Len(p) - 1 <= Len(s)
    /\ \A k \in 1..Len(p) : s[i + k - 1] = p[k]

\* s.indexOf(p), 1-based; 0 when absent
IndexOf(s, p) ==
    IF \E i \in 1..(Len(s) + 1) : MatchAt(s, p, i)
    THEN CHOOSE i \in 1..(Len(s) + 1) :
            /\ MatchAt(s, p, i)
            /\ \A j \in 1..(i - 1) : ~MatchAt(s, p, j)
    ELSE 0

\* s.includes(p)
Includes(s, p) == IndexOf(s, p) # 0

\* s.slice(i - 1): the text from position i on
SliceFrom(s, i) == IF i > Len(s) THEN <<>> ELSE SubSeq(s, i, Len(s))

\* s.replaceAll(p, r) for a literal p and a replacement without $-patterns
RECURSIVE ReplaceAll(_, _, _)
ReplaceAll(s, p, r) ==
    IF s = <<>> THEN <<>>
    ELSE IF MatchAt(s, p, 1)
         THEN r \o ReplaceAll(SliceFrom(s, Len(p) + 1), p, r)
         ELSE <<Head(s)>> \o ReplaceAll(Tail(s), p, r)

\* The replacement-string patterns of String.prototype.replace with a string
\* pattern: $$ is a dollar, $& the match, $ + backtick the text before the match,
\* $' the text after it; any other $ is literal.
RECURSIVE ExpandReplacement(_, _, _, _)
ExpandReplacement(r, matched, before, after) ==
    IF r = <<>> THEN <<>>
    ELSE IF Head(r) = DOLLAR /\ Len(r) >= 2 /\ r[2] \in {DOLLAR, AMP, BT, SQ}
         THEN (CASE r[2] = DOLLAR -> <<DOLLAR>>
                 [] r[2] = AMP -> matched
                 [] r[2] = BT -> before
                 [] r[2] = SQ -> after)
              \o ExpandReplacement(SliceFrom(r, 3), matched, before, after)
         ELSE <<Head(r)>> \o ExpandReplacement(Tail(r), matched, before, after)

\* s.replace(p, r) for a string pattern p: the first occurrence only
ReplaceFirst(s, p, r) ==
    LET i == IndexOf(s, p) IN
    IF i = 0 THEN s
    ELSE LET before == SubSeq(s, 1, i - 1)
             after == SliceFrom(s, i + Len(p))
         IN before \o ExpandReplacement(r, p, before, after) \o after

\* s.split("\n")
RECURSIVE SplitLines(_)
SplitLines(s) ==
    LET i == IndexOf(s, <<NL>>) IN
    IF i = 0 THEN <<s>>
    ELSE <<SubSeq(s, 1, i - 1)>> \o SplitLines(SliceFrom(s, i + 1))

\* the characters the regular expression class \s matches
IsSpace(c) == c \in {SP, NL, CR, TAB}

\* line.match(/^(\s*)/)[1]: the leading whitespace of a line
RECURSIVE LeadingSpace(_)
LeadingSpace(s) ==
    IF s # <<>> /\ IsSpace(Head(s))
    THEN <<Head(s)>> \o LeadingSpace(Tail(s))
    ELSE <<>>

\* s.trim()
RECURSIVE TrimStart(_)
TrimStart(s) == IF s # <<>> /\ IsSpace(Head(s)) THEN TrimStart(Tail(s)) ELSE s

RECURSIVE TrimEnd(_)
TrimEnd(s) ==
    IF s # <<>> /\ IsSpace(s[Len(s)]) THEN TrimEnd(SubSeq(s, 1, Len(s) - 1)) ELSE s

Trim(s) == TrimEnd(TrimStart(s))

\* [a, b, ...].join(sep)
RECURSIVE Join(_, _)
Join(parts, sep) ==
    IF parts = <<>> THEN <<>>
    ELSE IF Len(parts) = 1 THEN parts[1]
    ELSE parts[1] \o sep \o Join(Tail(parts), sep)

\* String(index) for the indices the bounded model reaches
Digits == <<"0", "1", "2", "3", "4", "5", "6", "7", "8", "9">>
ToStr(n) == <<Digits[n + 1]>>

(* ---------------------------------------------------------------------- *)
(* The marker prefix (process-wide) and the classifier                     *)
(* ---------------------------------------------------------------------- *)
DefaultRandomString == <<"MARKER_b67575ae-db24-47f3-9c7d-e8b46b84228b_">>
CustomRandomString == <<"CUSTOM_MARKER_">>

\* variants of the classifier with a plausible slip, used to show that the
\* properties below depend on it
shouldConvertMultiline_edgeChecked(value) ==
    /\ Includes(value, <<NL>>)
    /\ ~Includes(value, <<CR>>)
    /\ Head(value) # NL
    /\ ~IsSpace(value[Len(value)])

shouldConvertMultiline_noNewlineTest(value) == ~Includes(value, <<CR>>)

shouldConvertMultiline_contentRequired(value) ==
    /\ Includes(value, <<NL>>)
    /\ ~Includes(value, <<CR>>)
    /\ Trim(value) # <<>>

shouldConvertMultiline_noBackslash(value) ==
    /\ Includes(value, <<NL>>)
    /\ ~Includes(value, <<CR>>)
    /\ ~Includes(value, <<BS>>)

\* value.includes("\n") && !value.includes("\r")
shouldConvertMultiline(value) == Includes(value, <<NL>>) /\ ~Includes(value, <<CR>>)


(* ---------------------------------------------------------------------- *)
(* JSON values and JSON.stringify                                          *)
(* ---------------------------------------------------------------------- *)
\* A JSON value is a record [t, v]: t is "str" (v the text), "null", "arr"
\* (v the sequence of elements) or "obj" (v the sequence of <<key, value>>).
Str(s) == [t |-> "str", v |-> s]
Null == [t |-> "null", v |-> <<>>]
Arr(items) == [t |-> "arr", v |-> items]
Obj(entries) == [t |-> "obj", v |-> entries]

\* an optional option is <<>> when omitted and <<x>> when supplied;
\* Default(opt, d) is the expression  opt ?? d
Default(opt, d) == IF opt = <<>> THEN d ELSE opt[1]

\* JSON.stringify of one character of a string
QuoteChar(c) ==
    CASE c = DQ -> <<BS, DQ>>
      [] c = BS -> <<BS, BS>>
      [] c = NL -> <<BS, "n">>
      [] c = CR -> <<BS, "r">>
      [] c = TAB -> <<BS, "t">>
      [] OTHER -> <<c>>

RECURSIVE QuoteBody(_)
QuoteBody(s) == IF s = <<>> THEN <<>> ELSE QuoteChar(Head(s)) \o QuoteBody(Tail(s))

\* JSON.stringify of a string: the quoted, escaped literal
Quote(s) == <<DQ>> \o QuoteBody(s) \o <<DQ>>

\* the gap JSON.stringify derives from its space argument (a number of spaces)
RECURSIVE Spaces(_)
Spaces(n) == IF n = 0 THEN <<>> ELSE <<SP>> \o Spaces(n - 1)

Gap(options) == Spaces(Min(Default(options.jsonStringifySpace, 0), 10))

\* What a replacer callback may return besides a JSON value: undefined.
Undefined == [t |-> "undefined", v |-> <<>>]

\* jsonStringifyReplacer?: (key: string, value: unknown) => unknown.  The
\* callbacks offered: "omitK" returns undefined for the property k, "nullK"
\* returns null for it, "starK" returns the string * for it; each returns
\* the value it was given for every other key.
CustomReplacers == {"omitK", "nullK", "starK"}

CallCustomReplacer(name, key, value) ==
    IF key # <<"k">> THEN value
    ELSE CASE name = "omitK" -> Undefined
           [] name = "nullK" -> Null
           [] OTHER -> Str(<<"*">>)

\* a ?? b: b when a is undefined or null
Coalesce(a, b) == IF a.t \in {"undefined", "null"} THEN b ELSE a

\* options.jsonStringifyReplacer?.(key, replacedValue) ?? replacedValue
CustomReplaced(options, key, replacedValue) ==
    IF options.jsonStringifyReplacer = <<>> THEN replacedValue
    ELSE Coalesce(CallCustomReplacer(options.jsonStringifyReplacer[1], key, replacedValue),
                  replacedValue)

\* The replacer jsonToJavascript hands to JSON.stringify: an eligible string
\* is swapped for randomString + markerCount and pushed on multilineStrings;
\* the custom replacer then sees the swapped value.
\* st is [markerCount, multilineStrings]; the result adds the value to emit.
Replacer_ignoresUseDedent(options, rs, key, value, st) ==
    IF /\ value.t = "str"
       /\ shouldConvertMultiline(value.v)
    THEN [value |-> CustomReplaced(options, key, Str(rs \o ToStr(st.markerCount))),
          markerCount |-> st.markerCount + 1,
          multilineStrings |-> Append(st.multilineStrings, value.v)]
    ELSE [value |-> CustomReplaced(options, key, value),
          markerCount |-> st.markerCount,
          multilineStrings |-> st.multilineStrings]

\* a variant of Replacer that hands out the token of an equal string that
\* is pending already instead of minting a new one
Replacer_reusesToken(options, rs, key, value, st) ==
    LET same == {i \in 1..Len(st.multilineStrings) : st.multilineStrings[i] = value.v} IN
    IF /\ Default(options.useDedent, FALSE)
       /\ value.t = "str"
       /\ shouldConvertMultiline(value.v)
    THEN IF same # {}
         THEN [value |-> CustomReplaced(options, key,
                             Str(rs \o ToStr((CHOOSE i \in same : TRUE) - 1))),
               markerCount |-> st.markerCount,
               multilineStrings |-> st.multilineStrings]
         ELSE [value |-> CustomReplaced(options, key, Str(rs \o ToStr(st.markerCount))),
               markerCount |-> st.markerCount + 1,
               multilineStrings |-> Append(st.multilineStrings, value.v)]
    ELSE [value |-> CustomReplaced(options, key, value),
          markerCount |-> st.markerCount,
          multilineStrings |-> st.multilineStrings]

Replacer(options, rs, key, value, st) ==
    IF /\ Default(options.useDedent, FALSE)
       /\ value.t = "str"
       /\ shouldConvertMultiline(value.v)
    THEN [value |-> CustomReplaced(options, key, Str(rs \o ToStr(st.markerCount))),
          markerCount |-> st.markerCount + 1,
          multilineStrings |-> Append(st.multilineStrings, value.v)]
    ELSE [value |-> CustomReplaced(options, key, value),
          markerCount |-> st.markerCount,
          multilineStrings |-> st.multilineStrings]

\* The replacer of the second jsonToJavascript of src/index.ts (the one that
\* formats before it resolves): eligible is any string with a newline.
ReplacerFormatFirst(options, rs, key, value, st) ==
    IF /\ Default(options.useDedent, FALSE)
       /\ value.t = "str"
       /\ Includes(value.v, <<NL>>)
    THEN [value |-> CustomReplaced(options, key, Str(rs \o ToStr(st.markerCount))),
          markerCount |-> st.markerCount + 1,
          multilineStrings |-> Append(st.multilineStrings, value.v)]
    ELSE [value |-> CustomReplaced(options, key, value),
          markerCount |-> st.markerCount,
          multilineStrings |-> st.multilineStrings]

\* JSON.stringify called with the custom replacer itself as its replacer
\* argument: what the callback returns is what is serialized.
ReplacerPlain(options, rs, key, value, st) ==
    [value |-> IF options.jsonStringifyReplacer = <<>> THEN value
               ELSE CallCustomReplacer(options.jsonStringifyReplacer[1], key, value),
     markerCount |-> st.markerCount,
     multilineStrings |-> st.multilineStrings]

\* a variant of SerializeKey that writes a key with a newline as a template
\* literal, as if keys were candidates for conversion too
SerializeKey_convertsKeys(key) ==
    IF shouldConvertMultiline(key)
    THEN <<SP, "dedent", BT>> \o key \o <<BT>>
    ELSE Quote(key)

\* JSON.stringify's serialization of a property name
SerializeKey(key) == Quote(key)

\* JSON.stringify's walk: the replacer is applied to every property value
\* (the root under the key "", an element under its index) before it is
\* serialized, in document order.  A value the replacer turned into
\* undefined is left out of an object, is null in an array, and makes the
\* whole result undefined at the root.  which names the replacer callback
\* the caller passed.
RECURSIVE SerializeValue(_, _, _, _, _, _, _)
RECURSIVE SerializeItems(_, _, _, _, _, _, _, _)
SerializeValue(which, options, rs, key, value, st, indent) ==
    LET r == CASE which = "formatFirst" -> ReplacerFormatFirst(options, rs, key, value, st)
               [] which = "plain" -> ReplacerPlain(options, rs, key, value, st)
               [] OTHER -> Replacer(options, rs, key, value, st)
        st1 == [markerCount |-> r.markerCount, multilineStrings |-> r.multilineStrings]
        gap == Gap(options)
        inner == indent \o gap
        open == IF r.value.t = "arr" THEN "[" ELSE "{"
        close == IF r.value.t = "arr" THEN "]" ELSE "}"
    IN
    CASE r.value.t = "str" ->
            [text |-> Quote(r.value.v), omitted |-> FALSE,
             markerCount |-> st1.markerCount, multilineStrings |-> st1.multilineStrings]
      [] r.value.t = "null" ->
            [text |-> <<"null">>, omitted |-> FALSE,
             markerCount |-> st1.markerCount, multilineStrings |-> st1.multilineStrings]
      [] r.value.t = "undefined" ->
            [text |-> <<"undefined">>, omitted |-> TRUE,
             markerCount |-> st1.markerCount, multilineStrings |-> st1.multilineStrings]
      [] OTHER ->
            LET items == SerializeItems(which, options, rs, r.value.t, r.value.v, 0,
                                        st1, inner) IN
            [text |->
                IF items.parts = <<>> THEN <<open, close>>
                ELSE IF gap = <<>> THEN <<open>> \o Join(items.parts, <<",">>) \o <<close>>
                ELSE <<open, NL>> \o inner
                       \o Join(items.parts, <<",", NL>> \o inner)
                       \o <<NL>> \o indent \o <<close>>,
             omitted |-> FALSE,
             markerCount |-> items.markerCount,
             multilineStrings |-> items.multilineStrings]

SerializeItems(which, options, rs, kind, items, i, st, indent) ==
    IF items = <<>>
    THEN [parts |-> <<>>, markerCount |-> st.markerCount,
          multilineStrings |-> st.multilineStrings]
    ELSE LET first == IF kind = "arr"
                      THEN SerializeValue(which, options, rs, ToStr(i), items[1], st, indent)
                      ELSE SerializeValue(which, options, rs, items[1][1], items[1][2],
                                          st, indent)
             label == IF kind = "arr" THEN <<>>
                      ELSE SerializeKey(items[1][1]) \o <<":">>
                             \o (IF Gap(options) = <<>> THEN <<>> ELSE <<SP>>)
             part == IF ~first.omitted THEN << label \o first.text >>
                     ELSE IF kind = "arr" THEN << <<"null">> >>
                     ELSE <<>>
             rest == SerializeItems(which, options, rs, kind, Tail(items), i + 1,
                        [markerCount |-> first.markerCount,
                         multilineStrings |-> first.multilineStrings], indent)
         IN [parts |-> part \o rest.parts,
             markerCount |-> rest.markerCount,
             multilineStrings |-> rest.multilineStrings]

\* let markerCount = 0; const multilineStrings = []: the locals of one call
FreshLocals == [markerCount |-> 0, multilineStrings |-> <<>>]

\* const string = JSON.stringify(json, replacer, options.jsonStringifySpace)
JsonStringify(options, rs, json) ==
    SerializeValue("first", options, rs, <<>>, json, FreshLocals, <<>>)

\* the same call in the second jsonToJavascript
JsonStringifyFormatFirst(options, rs, json) ==
    SerializeValue("formatFirst", options, rs, <<>>, json, FreshLocals, <<>>)

(* ---------------------------------------------------------------------- *)
(* Marker resolution                                                       *)
(* ---------------------------------------------------------------------- *)
TempTemplateStart == <<"__TEMP_TEMPLATE_START__">>

\* the escaping chain applied to a pending string before it is spliced
EscapeForTemplate(s) ==
    LET e1 == ReplaceAll(s, <<BS>>, <<BS, BS>>)
        e2 == ReplaceAll(e1, <<BT>>, <<BS, BT>>)
        e3 == ReplaceAll(e2, <<DOLLAR, LBRACE>>, TempTemplateStart)
        e4 == ReplaceAll(e3, <<DOLLAR>>, <<BS, DOLLAR>>)
    IN ReplaceAll(e4, TempTemplateStart, <<BS, DOLLAR, LBRACE>>)

Marker(rs, index) == rs \o ToStr(index)
QuotedMarker(rs, index) == <<DQ>> \o Marker(rs, index) \o <<DQ>>

\* formatted.split("\n").find((line) => line.includes(marker)), then the
\* line's leading whitespace; "" when no line holds the marker
RECURSIVE FindLine(_, _)
FindLine(lines, marker) ==
    IF lines = <<>> THEN <<>>
    ELSE IF Includes(Head(lines), marker) THEN <<Head(lines)>>
    ELSE FindLine(Tail(lines), marker)

MarkerIndent(formatted, marker) ==
    LET found == FindLine(SplitLines(formatted), marker) IN
    IF found = <<>> THEN <<>> ELSE LeadingSpace(found[1])

DedentPrefixDefault == <<SP, "dedent">>
DedentSuffixDefault == <<>>

\* the text spliced in for one pending string
LinesExpression(options, s, indent) ==
    LET escaped == EscapeForTemplate(s)
        indented == ReplaceAll(escaped, <<NL>>, <<NL>> \o indent \o <<SP, SP>>)
        dedentPrefix == Default(options.dedentPrefix, DedentPrefixDefault)
        dedentSuffix == Default(options.dedentSuffix, DedentSuffixDefault)
    IN Join(<< dedentPrefix \o <<BT>>,
               indent \o <<SP, SP>> \o indented,
               indent \o <<SP, SP, BT>> \o dedentSuffix >>, <<NL>>)

\* one iteration of the resolution loop, for a marker that is present
ResolveOne(options, rs, formatted, s, index) ==
    ReplaceFirst(formatted, QuotedMarker(rs, index),
                 LinesExpression(options, s, MarkerIndent(formatted, Marker(rs, index))))

\* the resolution loop from index on: the text it ends with, or the index
\* of the marker it did not find
RECURSIVE ResolveAll(_, _, _, _, _, _)
ResolveAll(options, rs, formatted, count, strings, index) ==
    IF index >= count THEN [ok |-> TRUE, text |-> formatted, index |-> index]
    ELSE IF ~Includes(formatted, QuotedMarker(rs, index))
         THEN [ok |-> FALSE, text |-> formatted, index |-> index]
         ELSE ResolveAll(options, rs,
                         ResolveOne(options, rs, formatted, strings[index + 1], index),
                         count, strings, index + 1)

\* The second jsonToJavascript escapes the backtick and ${ only,
EscapeFormatFirst(s) ==
    ReplaceAll(ReplaceAll(s, <<BT>>, <<BS, BT>>),
               <<DOLLAR, LBRACE>>, <<BS, DOLLAR, LBRACE>>)

\* puts the closing backtick at the marker line's own indentation,
LinesExpressionFormatFirst(options, s, indent) ==
    LET escaped == EscapeFormatFirst(s)
        indented == ReplaceAll(escaped, <<NL>>, <<NL>> \o indent \o <<SP, SP>>)
        dedentPrefix == Default(options.dedentPrefix, DedentPrefixDefault)
        dedentSuffix == Default(options.dedentSuffix, DedentSuffixDefault)
    IN Join(<< dedentPrefix \o <<BT>>,
               indent \o <<SP, SP>> \o indented,
               indent \o <<BT>> \o dedentSuffix >>, <<NL>>)

\* and replaces without looking first whether the quoted marker is there.
ResolveOneFormatFirst(options, rs, formatted, s, index) ==
    ReplaceFirst(formatted, QuotedMarker(rs, index),
                 LinesExpressionFormatFirst(options, s,
                        MarkerIndent(formatted, Marker(rs, index))))

RECURSIVE ResolveAllFormatFirst(_, _, _, _, _, _)
ResolveAllFormatFirst(options, rs, formatted, count, strings, index) ==
    IF index >= count THEN formatted
    ELSE ResolveAllFormatFirst(options, rs,
            ResolveOneFormatFirst(options, rs, formatted, strings[index + 1], index),
            count, strings, index + 1)


(* ---------------------------------------------------------------------- *)
(* Callbacks and the formatter                                             *)
(* ---------------------------------------------------------------------- *)
\* options.beforePrettier is a caller-supplied callback.  The model offers
\* two: one that rewrites double quotes to single quotes, and one that
\* returns the text as it is and calls setRandomString("CUSTOM_MARKER_").
ApplyBeforePrettier(options, text) ==
    IF options.beforePrettier = <<"singleQuotes">>
    THEN ReplaceAll(text, <<DQ>>, <<SQ>>)
    ELSE text

\* the marker prefix after the beforePrettier callback has run
PrefixAfterBeforePrettier(options, rs) ==
    IF options.beforePrettier = <<"setRandomString">> THEN CustomRandomString ELSE rs

\* a variant of Wrap that takes the default for an empty prefix or suffix
\* too, as (options.prefix || "(") would
Wrap_falsyDefaults(options, string) ==
    ApplyBeforePrettier(options,
        (IF Default(options.prefix, <<>>) = <<>> THEN <<"(">> ELSE options.prefix[1])
        \o string
        \o (IF Default(options.suffix, <<>>) = <<>> THEN <<")">> ELSE options.suffix[1]))

\* (options.prefix ?? "(") + string + (options.suffix ?? ")"), then the
\* beforePrettier callback
Wrap(options, string) ==
    ApplyBeforePrettier(options,
        Default(options.prefix, <<"(">>) \o string \o Default(options.suffix, <<")">>))

\* prettier's format() is an external collaborator: it either rejects or
\* resolves with a new layout in which every literal is kept verbatim.  The
\* layout offered here ends the statement with a semicolon and a newline.
FormatLayouts(text) == { text \o <<";", NL>> }

(* ---------------------------------------------------------------------- *)
(* Inputs of the checked instance                                          *)
(* ---------------------------------------------------------------------- *)
Alphabet == {"a", SP, NL, CR, BT, DOLLAR, BS, DQ, SQ, AMP}
PlainAlphabet == {"a", SP, NL}

StringsOver(A, n) == UNION {[1..k -> A] : k \in 0..n}

\* a string equal to the text of the first token minted under the default marker
TokenLike == DefaultRandomString \o <<"0">>

RootStrings == StringsOver(Alphabet, MaxLen) \cup StringsOver(PlainAlphabet, MaxLenPlain)
ElemStrings == StringsOver(Alphabet, MaxElemLen) \cup {TokenLike}
FixedStrings == {<<"a">>, <<NL>>, <<"a", NL, "a">>, TokenLike}
Keys == {<<"k">>, <<"a", NL>>, TokenLike}

RootInputs == {Str(s) : s \in RootStrings}

NestedInputs ==
    {Arr(<<Str(a), Str(f)>>) : a \in ElemStrings, f \in FixedStrings}
    \cup {Arr(<<Str(f), Str(a)>>) : a \in ElemStrings, f \in FixedStrings}
    \cup {Obj(<< <<k, Str(a)>> >>) : k \in Keys, a \in ElemStrings}
    \cup {Obj(<< <<k, Arr(<<Null, Str(f)>>)>> >>) : k \in Keys, f \in FixedStrings}
    \cup {Null, Arr(<<>>)}

Opt(useDedent, usePrettier, space, hook) ==
    [useDedent |-> useDedent, usePrettier |-> usePrettier,
     jsonStringifySpace |-> space, beforePrettier |-> hook,
     prefix |-> <<>>, suffix |-> <<>>,
     dedentPrefix |-> <<>>, dedentSuffix |-> <<>>,
     jsonStringifyReplacer |-> <<>>]

RootOptions ==
    {Opt(<<TRUE>>, p, <<>>, <<>>) : p \in {<<>>, <<FALSE>>}}

NestedOptions ==
    {Opt(d, p, sp, h) : d \in {<<>>, <<TRUE>>, <<FALSE>>}, p \in {<<>>, <<FALSE>>},
                        sp \in {<<>>, <<2>>},
                        h \in {<<>>, <<"singleQuotes">>, <<"setRandomString">>}}

\* strings over the characters the template escaping rewrites, each with a
\* newline so that it is converted; "__TEMP_TEMPLATE_START__" stands for that
\* literal text occurring in the user's string
EscapeAlphabet == {DOLLAR, LBRACE, BS, "__TEMP_TEMPLATE_START__"}
EscapeInputs == {Str(s \o <<NL>>) : s \in StringsOver(EscapeAlphabet, MaxLen)}

\* calls that pass a jsonStringifyReplacer
ReplacerInputs ==
    {Obj(<< <<(<<"k">>), Str(a)>>, <<(<<"j">>), Str(b)>> >>) :
        a \in {<<"a">>, <<"a", NL>>}, b \in {<<"a">>, <<NL>>}}
    \cup {Obj(<< <<(<<"k">>), Null>> >>), Arr(<<Str(<<"a">>)>>), Str(<<"a", NL>>)}
ReplacerOptions ==
    {[Opt(d, p, sp, <<>>) EXCEPT !.jsonStringifyReplacer = <<n>>] :
        d \in {<<>>, <<TRUE>>}, p \in {<<>>, <<FALSE>>}, sp \in {<<>>, <<2>>},
        n \in CustomReplacers}

\* calls that pass prefix, suffix, dedentPrefix or dedentSuffix; << <<>> >>
\* is the empty string passed explicitly
AffixInputs == {Str(<<"a">>), Str(<<"a", NL, "a">>), Arr(<<Str(<<NL>>), Str(<<"a">>)>>)}
AffixOptions ==
    {[Opt(d, <<FALSE>>, <<>>, <<>>) EXCEPT !.prefix = x, !.suffix = y] :
        d \in {<<>>, <<TRUE>>},
        x \in {<<>>, << <<>> >>, << <<"x", "=">> >>},
        y \in {<<>>, << <<>> >>, << <<";">> >>}}
    \cup {[Opt(<<TRUE>>, <<FALSE>>, <<>>, <<>>) EXCEPT !.dedentPrefix = x, !.dedentSuffix = y] :
        x \in {<<>>, << <<DOLLAR, DOLLAR>> >>, << <<"t">> >>},
        y \in {<<>>, << <<DOLLAR, AMP>> >>, << <<DOLLAR, SQ>> >>, << <<".", "x">> >>}}

Calls ==
    (RootInputs \X RootOptions) \cup (NestedInputs \X NestedOptions)
    \cup (EscapeInputs \X RootOptions)
    \cup (ReplacerInputs \X ReplacerOptions)
    \cup (AffixInputs \X AffixOptions)

(* ---------------------------------------------------------------------- *)
(* Inputs of the command line and of the concurrent calls                  *)
(* ---------------------------------------------------------------------- *)
\* what parseArgs returns: values (an omitted flag is <<>>) and whether any
\* positional argument was given
Argvs ==
    [positionals : BOOLEAN, help : BOOLEAN,
     inputFile : {<<>>, <<"input.json">>}, outputFile : {<<>>, <<"output.js">>},
     useDedent : {<<>>, <<"true">>}, usePrettier : {<<>>, <<"false">>},
     prettierOptions : {<<>>, <<"{}">>, <<"{">>}]

\* what the input path holds: nothing, text that is not JSON, or a JSON text
\* (kept as the value JSON.parse returns for it)
NoFile == [t |-> "missing", v |-> <<>>]
NotJson == [t |-> "invalid", v |-> <<>>]
InputFiles ==
    {NoFile, NotJson, Null, Str(<<"a">>), Obj(<< <<(<<"k">>), Str(<<"a", NL, "a">>)>> >>)}

\* calls made while another call is suspended
ConcurrentInputs ==
    {Str(<<"a", NL, "a">>), Arr(<<Str(<<NL>>), Str(<<"a">>), Str(<<"a", NL>>)>>), Str(<<"a">>),
     Arr(<<Str(<<"a", NL>>), Str(<<"a", NL>>)>>)}
ConcurrentOptions ==
    {Opt(<<TRUE>>, p, <<>>, h) : p \in {<<>>, <<FALSE>>}, h \in {<<>>, <<"singleQuotes">>}}
ConcurrentCalls == ConcurrentInputs \X ConcurrentOptions

(* ---------------------------------------------------------------------- *)
(* State                                                                   *)
(* ---------------------------------------------------------------------- *)
VARIABLES
    randomString,       \* the process-wide marker prefix
    pc,                 \* position of the jsonToJavascript call
    json,               \* argument: the value to convert
    options,            \* argument: the options
    markerCount,        \* local: tokens minted so far
    multilineStrings,   \* local: the pending strings, by token index
    formatted,          \* local: the text under construction
    index,              \* local: the resolution loop's index
    result,             \* what the call settled with
    other,              \* a second jsonToJavascript call: its arguments, locals, result
    cliPc,              \* position of the cli.ts script ("off": not run as a script)
    argv,               \* cli.ts: the parsed command line
    files,              \* the file system: the input file, whether it was read, the output
    stdout,             \* cli.ts: what console.log printed
    stderr,             \* cli.ts: what console.error printed, uncaught errors included
    exitCode            \* cli.ts: <<>> while running, then the exit status

callVars == <<pc, json, options, markerCount, multilineStrings, formatted, index, result>>
cliVars == <<cliPc, argv, files, stdout, stderr, exitCode>>
vars == <<randomString, callVars, other, cliVars>>

NoResult ==
    [kind |-> "none", code |-> <<>>, needsDedent |-> FALSE, message |-> <<>>, cause |-> <<>>]
Returned(code, needsDedent) ==
    [kind |-> "value", code |-> code, needsDedent |-> needsDedent,
     message |-> <<>>, cause |-> <<>>]
Thrown(kind, message, cause) ==
    [kind |-> kind, code |-> <<>>, needsDedent |-> FALSE,
     message |-> message, cause |-> cause]

\* throw new Error("Marker " + quotedMarker + " not found in code")
MarkerNotFoundError(rs, i) ==
    Thrown("markerNotFound",
           <<"Marker ">> \o QuotedMarker(rs, i) \o <<" not found in code">>, <<>>)

\* throw new Error("Failed to format code with prettier, ...", { cause: error })
PrettierError(error) ==
    Thrown("prettierFailed",
           <<"Failed to format code with prettier, consider turning off prettier with --usePrettier false">>,
           <<error>>)

\* the errors format() may reject with
FormatErrors == {"SyntaxError", "UndefinedParserError"}

IdleCall ==
    [which |-> "first", pc |-> "idle", json |-> Null,
     options |-> Opt(<<>>, <<>>, <<>>, <<>>),
     markerCount |-> 0, multilineStrings |-> <<>>, formatted |-> <<>>,
     result |-> NoResult]

NoArgv ==
    [positionals |-> FALSE, help |-> FALSE, inputFile |-> <<>>, outputFile |-> <<>>,
     useDedent |-> <<>>, usePrettier |-> <<>>, prettierOptions |-> <<>>]

Init ==
    /\ randomString = DefaultRandomString
    /\ pc = "idle"
    /\ json = Null
    /\ options = Opt(<<>>, <<>>, <<>>, <<>>)
    /\ markerCount = 0
    /\ multilineStrings = <<>>
    /\ formatted = <<>>
    /\ index = 0
    /\ result = NoResult
    /\ other = IdleCall
    /\ cliPc = "off"
    /\ argv = NoArgv
    /\ files = [input |-> NoFile, read |-> FALSE, output |-> <<>>]
    /\ stdout = <<>>
    /\ stderr = <<>>
    /\ exitCode = <<>>

usePrettier == Default(options.usePrettier, TRUE)
useDedent == Default(options.useDedent, FALSE)

\* setRandomString(string)
SetRandomString ==
    /\ pc = "idle"
    /\ cliPc = "off"
    /\ \E string \in {DefaultRandomString, CustomRandomString} :
          randomString' = string
    /\ UNCHANGED <<callVars, other, cliVars>>

(* ---------------------------------------------------------------------- *)
(* jsonToJavascript, src/index.ts lines 161-246                            *)
(* ---------------------------------------------------------------------- *)
\* jsonToJavascript(json, options) is entered: markerCount = 0 and
\* multilineStrings = [] are fresh locals of the call
CallWith(calls, first) ==
    /\ pc = "idle"
    /\ cliPc = "off"
    /\ \E c \in calls :
          /\ json' = c[1]
          /\ options' = c[2]
    /\ markerCount' = FreshLocals.markerCount
    /\ multilineStrings' = FreshLocals.multilineStrings
    /\ formatted' = <<>>
    /\ index' = 0
    /\ pc' = first
    /\ UNCHANGED <<randomString, result, other, cliVars>>

Call == CallWith(Calls, "stringify")

\* JSON.stringify with the replacer, then prefix + string + suffix and the
\* beforePrettier hook
Stringify ==
    /\ pc = "stringify"
    /\ LET r == JsonStringify(options, randomString, json) IN
          /\ markerCount' = r.markerCount
          /\ multilineStrings' = r.multilineStrings
          /\ formatted' = Wrap(options, r.text)
    /\ randomString' = PrefixAfterBeforePrettier(options, randomString)
    /\ index' = 0
    /\ pc' = "resolve"
    /\ UNCHANGED <<json, options, result, other, cliVars>>

\* one iteration of the loop: the quoted marker is in the text
ResolveMarker ==
    /\ pc = "resolve"
    /\ index < markerCount
    /\ Includes(formatted, QuotedMarker(randomString, index))
    /\ formatted' = ResolveOne(options, randomString, formatted,
                               multilineStrings[index + 1], index)
    /\ index' = index + 1
    /\ UNCHANGED <<randomString, pc, json, options, markerCount,
                   multilineStrings, result, other, cliVars>>

\* a variant of MarkerNotFound that skips the marker and goes on
MarkerNotFound_skips ==
    /\ pc = "resolve"
    /\ index < markerCount
    /\ ~Includes(formatted, QuotedMarker(randomString, index))
    /\ index' = index + 1
    /\ UNCHANGED <<randomString, pc, json, options, markerCount, multilineStrings,
                   formatted, result, other, cliVars>>

\* one iteration of the loop: the quoted marker is absent, the call throws
MarkerNotFound ==
    /\ pc = "resolve"
    /\ index < markerCount
    /\ ~Includes(formatted, QuotedMarker(randomString, index))
    /\ pc' = "failed"
    /\ result' = MarkerNotFoundError(randomString, index)
    /\ UNCHANGED <<randomString, json, options, markerCount, multilineStrings,
                   formatted, index, other, cliVars>>

\* the loop is over and usePrettier holds: format() is awaited
AwaitFormat ==
    /\ pc = "resolve"
    /\ index = markerCount
    /\ usePrettier
    /\ pc' = "formatting"
    /\ UNCHANGED <<randomString, json, options, markerCount, multilineStrings,
                   formatted, index, result, other, cliVars>>

\* format() resolves
FormatResolves ==
    /\ pc = "formatting"
    /\ \E text \in FormatLayouts(formatted) : formatted' = text
    /\ pc' = "return"
    /\ UNCHANGED <<randomString, json, options, markerCount, multilineStrings,
                   index, result, other, cliVars>>

\* a variant of FormatRejects that swallows the error and returns the
\* unformatted text
FormatRejects_swallowed ==
    /\ pc = "formatting"
    /\ pc' = "return"
    /\ UNCHANGED <<randomString, json, options, markerCount, multilineStrings,
                   formatted, index, result, other, cliVars>>

\* format() rejects: the error is wrapped and rethrown
FormatRejects ==
    /\ pc = "formatting"
    /\ pc' = "failed"
    /\ \E error \in FormatErrors : result' = PrettierError(error)
    /\ UNCHANGED <<randomString, json, options, markerCount, multilineStrings,
                   formatted, index, other, cliVars>>

\* a variant of Return that derives the flag from the option
Return_flagFromOption ==
    /\ \/ pc = "return"
       \/ pc = "resolve" /\ index = markerCount /\ ~usePrettier
    /\ result' = Returned(formatted, useDedent)
    /\ pc' = "done"
    /\ UNCHANGED <<randomString, json, options, markerCount, multilineStrings,
                   formatted, index, other, cliVars>>

\* return { code: formatted, needsDedent: markerCount > 0 }
Return ==
    /\ \/ pc = "return"
       \/ pc = "resolve" /\ index = markerCount /\ ~usePrettier
    /\ result' = Returned(formatted, markerCount > 0)
    /\ pc' = "done"
    /\ UNCHANGED <<randomString, json, options, markerCount, multilineStrings,
                   formatted, index, other, cliVars>>

(* ---------------------------------------------------------------------- *)
(* jsonToJavascript, src/index.ts lines 287-350 (formats, then resolves)   *)
(* ---------------------------------------------------------------------- *)
CallFormatFirst == CallWith(Calls, "ff_stringify")

\* JSON.stringify, prefix + string + suffix, beforePrettier; then format()
\* is awaited when usePrettier holds
StringifyFormatFirst ==
    /\ pc = "ff_stringify"
    /\ LET r == JsonStringifyFormatFirst(options, randomString, json) IN
          /\ markerCount' = r.markerCount
          /\ multilineStrings' = r.multilineStrings
          /\ formatted' = Wrap(options, r.text)
    /\ randomString' = PrefixAfterBeforePrettier(options, randomString)
    /\ index' = 0
    /\ pc' = IF usePrettier THEN "ff_formatting" ELSE "ff_resolve"
    /\ UNCHANGED <<json, options, result, other, cliVars>>

\* format() resolves
FormatResolvesFormatFirst ==
    /\ pc = "ff_formatting"
    /\ \E text \in FormatLayouts(formatted) : formatted' = text
    /\ pc' = "ff_resolve"
    /\ UNCHANGED <<randomString, json, options, markerCount, multilineStrings,
                   index, result, other, cliVars>>

\* format() rejects: the error is wrapped and rethrown
FormatRejectsFormatFirst ==
    /\ pc = "ff_formatting"
    /\ pc' = "ff_failed"
    /\ \E error \in FormatErrors : result' = PrettierError(error)
    /\ UNCHANGED <<randomString, json, options, markerCount, multilineStrings,
                   formatted, index, other, cliVars>>

\* one iteration of the loop: formatted.replace, whether or not the quoted
\* marker is in the text
ResolveMarkerFormatFirst ==
    /\ pc = "ff_resolve"
    /\ index < markerCount
    /\ formatted' = ResolveOneFormatFirst(options, randomString, formatted,
                                          multilineStrings[index + 1], index)
    /\ index' = index + 1
    /\ UNCHANGED <<randomString, pc, json, options, markerCount,
                   multilineStrings, result, other, cliVars>>

\* return { code: formatted, needsDedent: markerCount > 0 }
ReturnFormatFirst ==
    /\ pc = "ff_resolve"
    /\ index = markerCount
    /\ result' = Returned(formatted, markerCount > 0)
    /\ pc' = "ff_done"
    /\ UNCHANGED <<randomString, json, options, markerCount, multilineStrings,
                   formatted, index, other, cliVars>>

(* ---------------------------------------------------------------------- *)
(* A second call, run while the first is suspended or settled              *)
(* ---------------------------------------------------------------------- *)
\* JavaScript runs a call without interruption up to its await: the second
\* call takes steps only while the first is not in such a stretch
Suspended ==
    pc \in {"idle", "formatting", "ff_formatting", "done", "failed", "ff_done", "ff_failed"}

\* what a call that starts from the locals st settles with, or where it is
\* suspended: lines 161-231 run up to the await or to the end (for options
\* whose beforePrettier leaves the marker prefix alone)
RunToAwait(c, rs, st) ==
    LET usesPrettier == Default(c[2].usePrettier, TRUE)
        r == SerializeValue("first", c[2], rs, <<>>, c[1], st, <<>>)
        res == ResolveAll(c[2], rs, Wrap(c[2], r.text), r.markerCount,
                          r.multilineStrings, 0)
        base == [which |-> "first", json |-> c[1], options |-> c[2],
                 markerCount |-> r.markerCount,
                 multilineStrings |-> r.multilineStrings,
                 formatted |-> res.text]
    IN IF ~res.ok
       THEN base @@ [pc |-> "failed", result |-> MarkerNotFoundError(rs, res.index)]
       ELSE IF usesPrettier
       THEN base @@ [pc |-> "formatting", result |-> NoResult]
       ELSE base @@ [pc |-> "done",
                     result |-> Returned(res.text, r.markerCount > 0)]

\* the same for lines 287-317
RunToAwaitFormatFirst(c, rs, st) ==
    LET usesPrettier == Default(c[2].usePrettier, TRUE)
        r == SerializeValue("formatFirst", c[2], rs, <<>>, c[1], st, <<>>)
        base == [which |-> "formatFirst", json |-> c[1], options |-> c[2],
                 markerCount |-> r.markerCount,
                 multilineStrings |-> r.multilineStrings]
    IN IF usesPrettier
       THEN base @@ [pc |-> "formatting", formatted |-> Wrap(c[2], r.text),
                     result |-> NoResult]
       ELSE LET text == ResolveAllFormatFirst(c[2], rs, Wrap(c[2], r.text),
                            r.markerCount, r.multilineStrings, 0)
            IN base @@ [pc |-> "done", formatted |-> text,
                        result |-> Returned(text, r.markerCount > 0)]

\* a variant in which the counter and the pending list are module-level
\* state that the two calls share
OtherCall_sharedLocals ==
    /\ Suspended
    /\ other.pc = "idle"
    /\ \E c \in ConcurrentCalls :
          LET shared == [markerCount |-> markerCount,
                         multilineStrings |-> multilineStrings]
          IN \/ other' = RunToAwait(c, randomString, shared)
             \/ other' = RunToAwaitFormatFirst(c, randomString, shared)
    /\ UNCHANGED <<randomString, callVars, cliVars>>

\* the second call is made and runs up to its await
OtherCall ==
    /\ Suspended
    /\ other.pc = "idle"
    /\ \E c \in ConcurrentCalls :
          \/ other' = RunToAwait(c, randomString, FreshLocals)
          \/ other' = RunToAwaitFormatFirst(c, randomString, FreshLocals)
    /\ UNCHANGED <<randomString, callVars, cliVars>>

\* the second call's format() resolves and the call runs to its end
OtherFormatResolves ==
    /\ Suspended
    /\ other.pc = "formatting"
    /\ \E text \in FormatLayouts(other.formatted) :
          LET code == IF other.which = "first" THEN text
                      ELSE ResolveAllFormatFirst(other.options, randomString, text,
                              other.markerCount, other.multilineStrings, 0)
          IN other' = [other EXCEPT !.pc = "done", !.formatted = code,
                          !.result = Returned(code, other.markerCount > 0)]
    /\ UNCHANGED <<randomString, callVars, cliVars>>

\* the second call's format() rejects
OtherFormatRejects ==
    /\ Suspended
    /\ other.pc = "formatting"
    /\ \E error \in FormatErrors :
          other' = [other EXCEPT !.pc = "failed", !.result = PrettierError(error)]
    /\ UNCHANGED <<randomString, callVars, cliVars>>

(* ---------------------------------------------------------------------- *)
(* The command line, src/cli.ts                                            *)
(* ---------------------------------------------------------------------- *)
\* the script is started: parseArgs has returned
CliStart ==
    /\ pc = "idle"
    /\ cliPc = "off"
    /\ randomString = DefaultRandomString
    /\ \E a \in Argvs : argv' = a
    /\ \E f \in InputFiles : files' = [files EXCEPT !.input = f]
    /\ cliPc' = "parsed"
    /\ UNCHANGED <<randomString, callVars, other, stdout, stderr, exitCode>>

\* if (positionals.length > 0): console.error, process.exit(1)
CliUnknownArguments ==
    /\ cliPc = "parsed"
    /\ argv.positionals
    /\ stderr' = Append(stderr, "Unknown arguments")
    /\ exitCode' = <<1>>
    /\ cliPc' = "exited"
    /\ UNCHANGED <<randomString, callVars, other, argv, files, stdout>>

\* if (values.help): the usage is printed, process.exit(0)
CliHelp ==
    /\ cliPc = "parsed"
    /\ ~argv.positionals
    /\ argv.help
    /\ stdout' = Append(stdout, "Usage")
    /\ exitCode' = <<0>>
    /\ cliPc' = "exited"
    /\ UNCHANGED <<randomString, callVars, other, argv, files, stderr>>

\* a variant of the test for the required flags that asks for the input only
MissingFiles_inputOnly == argv.inputFile = <<>>

\* !values.inputFile || !values.outputFile
MissingFiles == argv.inputFile = <<>> \/ argv.outputFile = <<>>

\* if (!values.inputFile || !values.outputFile): console.error, process.exit(1)
CliMissingFiles ==
    /\ cliPc = "parsed"
    /\ ~argv.positionals
    /\ ~argv.help
    /\ MissingFiles
    /\ stderr' = Append(stderr, "--inputFile and --outputFile must be provided")
    /\ exitCode' = <<1>>
    /\ cliPc' = "exited"
    /\ UNCHANGED <<randomString, callVars, other, argv, files, stdout>>

\* the arguments are accepted
CliArgsOk == cliPc = "parsed" /\ ~argv.positionals /\ ~argv.help /\ ~MissingFiles

\* readFileSync throws: the script dies of the uncaught error
CliReadFails ==
    /\ CliArgsOk
    /\ files.input = NoFile
    /\ stderr' = Append(stderr, "ENOENT")
    /\ exitCode' = <<1>>
    /\ cliPc' = "exited"
    /\ UNCHANGED <<randomString, callVars, other, argv, files, stdout>>

\* JSON.parse(input) throws
CliParseFails ==
    /\ CliArgsOk
    /\ files.input = NotJson
    /\ files' = [files EXCEPT !.read = TRUE]
    /\ stderr' = Append(stderr, "SyntaxError")
    /\ exitCode' = <<1>>
    /\ cliPc' = "exited"
    /\ UNCHANGED <<randomString, callVars, other, argv, stdout>>

\* the input is read, parsed and logged; JSON.parse(values.prettierOptions)
\* throws while the options are built
CliPrettierOptionsFail ==
    /\ CliArgsOk
    /\ files.input \notin {NoFile, NotJson}
    /\ argv.prettierOptions = <<"{">>
    /\ files' = [files EXCEPT !.read = TRUE]
    /\ stdout' = Append(stdout, "json")
    /\ stderr' = Append(stderr, "SyntaxError")
    /\ exitCode' = <<1>>
    /\ cliPc' = "exited"
    /\ UNCHANGED <<randomString, callVars, other, argv>>

\* values.x ? values.x === "true" : undefined
CliFlag(value) == IF value = <<>> THEN <<>> ELSE << value[1] = "true" >>

\* a variant of CliConvert that creates the output file, empty, before it
\* calls jsonToJavascript
CliConvert_opensOutputFirst ==
    /\ CliArgsOk
    /\ files.input \notin {NoFile, NotJson}
    /\ argv.prettierOptions # <<"{">>
    /\ files' = [files EXCEPT !.read = TRUE, !.output = << <<>> >>]
    /\ stdout' = Append(stdout, "json")
    /\ json' = files.input
    /\ options' = Opt(CliFlag(argv.useDedent), CliFlag(argv.usePrettier), <<>>, <<>>)
    /\ markerCount' = FreshLocals.markerCount
    /\ multilineStrings' = FreshLocals.multilineStrings
    /\ formatted' = <<>>
    /\ index' = 0
    /\ pc' = "stringify"
    /\ cliPc' = "converting"
    /\ UNCHANGED <<randomString, result, other, argv, stderr, exitCode>>

\* the input is read, parsed and logged (console.log(json)), and
\* jsonToJavascript is called with the options built from the flags
CliConvert ==
    /\ CliArgsOk
    /\ files.input \notin {NoFile, NotJson}
    /\ argv.prettierOptions # <<"{">>
    /\ files' = [files EXCEPT !.read = TRUE]
    /\ stdout' = Append(stdout, "json")
    /\ json' = files.input
    /\ options' = Opt(CliFlag(argv.useDedent), CliFlag(argv.usePrettier), <<>>, <<>>)
    /\ markerCount' = FreshLocals.markerCount
    /\ multilineStrings' = FreshLocals.multilineStrings
    /\ formatted' = <<>>
    /\ index' = 0
    /\ pc' = "stringify"
    /\ cliPc' = "converting"
    /\ UNCHANGED <<randomString, result, other, argv, stderr, exitCode>>

\* writeFileSync(values.outputFile, output.code); the script ends
CliWrite ==
    /\ cliPc = "converting"
    /\ pc = "done"
    /\ files' = [files EXCEPT !.output = <<result.code>>]
    /\ exitCode' = <<0>>
    /\ cliPc' = "exited"
    /\ UNCHANGED <<randomString, callVars, other, argv, stdout, stderr>>

\* the awaited call rejects: the script dies of the uncaught error
CliRejected ==
    /\ cliPc = "converting"
    /\ pc = "failed"
    /\ stderr' = Append(stderr, result.kind)
    /\ exitCode' = <<1>>
    /\ cliPc' = "exited"
    /\ UNCHANGED <<randomString, callVars, other, argv, files, stdout>>

Next ==
    \/ SetRandomString
    \/ Call
    \/ Stringify
    \/ ResolveMarker
    \/ MarkerNotFound
    \/ AwaitFormat
    \/ FormatResolves
    \/ FormatRejects
    \/ Return
    \/ CliStart
    \/ CliUnknownArguments
    \/ CliHelp
    \/ CliMissingFiles
    \/ CliReadFails
    \/ CliParseFails
    \/ CliPrettierOptionsFail
    \/ CliConvert
    \/ CliWrite
    \/ CliRejected

Spec == Init /\ [][Next]_vars

\* the second jsonToJavascript of src/index.ts, called through the API
NextFormatFirst ==
    \/ SetRandomString
    \/ CallFormatFirst
    \/ StringifyFormatFirst
    \/ FormatResolvesFormatFirst
    \/ FormatRejectsFormatFirst
    \/ ResolveMarkerFormatFirst
    \/ ReturnFormatFirst

SpecFormatFirst == Init /\ [][NextFormatFirst]_vars

\* two calls, of either jsonToJavascript, under one marker prefix that no
\* one changes meanwhile
InitConcurrent ==
    /\ randomString \in {DefaultRandomString, CustomRandomString}
    /\ pc = "idle"
    /\ json = Null
    /\ options = Opt(<<>>, <<>>, <<>>, <<>>)
    /\ markerCount = 0
    /\ multilineStrings = <<>>
    /\ formatted = <<>>
    /\ index = 0
    /\ result = NoResult
    /\ other = IdleCall
    /\ cliPc = "off"
    /\ argv = NoArgv
    /\ files = [input |-> NoFile, read |-> FALSE, output |-> <<>>]
    /\ stdout = <<>>
    /\ stderr = <<>>
    /\ exitCode = <<>>

NextConcurrent ==
    \/ CallWith(ConcurrentCalls, "stringify")
    \/ Stringify
    \/ ResolveMarker
    \/ MarkerNotFound
    \/ AwaitFormat
    \/ FormatResolves
    \/ FormatRejects
    \/ Return
    \/ CallWith(ConcurrentCalls, "ff_stringify")
    \/ StringifyFormatFirst
    \/ FormatResolvesFormatFirst
    \/ FormatRejectsFormatFirst
    \/ ResolveMarkerFormatFirst
    \/ ReturnFormatFirst
    \/ OtherCall
    \/ OtherFormatResolves
    \/ OtherFormatRejects

SpecConcurrent == InitConcurrent /\ [][NextConcurrent]_vars



(* ---------------------------------------------------------------------- *)
(* Evaluating the emitted code                                             *)
(* ---------------------------------------------------------------------- *)
\* the character an escape sequence \c stands for in a JavaScript literal
Unescape(c) ==
    CASE c = "n" -> NL
      [] c = "r" -> CR
      [] c = "t" -> TAB
      [] OTHER -> c

\* Reads a literal's body up to its closing quote and returns the value it
\* denotes.  In a template an unescaped ${ opens an interpolation, which the
\* emitted data literals never intend: the read fails.  A plain string
\* literal cannot hold a raw newline.
RECURSIVE ScanLiteral(_, _, _)
ScanLiteral(text, quote, acc) ==
    IF text = <<>> THEN [ok |-> FALSE, value |-> acc, rest |-> <<>>]
    ELSE IF Head(text) = quote THEN [ok |-> TRUE, value |-> acc, rest |-> Tail(text)]
    ELSE IF Head(text) = BS
         THEN IF Len(text) < 2 THEN [ok |-> FALSE, value |-> acc, rest |-> <<>>]
              ELSE IF text[2] = NL THEN ScanLiteral(SliceFrom(text, 3), quote, acc)
              ELSE ScanLiteral(SliceFrom(text, 3), quote, Append(acc, Unescape(text[2])))
    ELSE IF quote = BT /\ MatchAt(text, <<DOLLAR, LBRACE>>, 1)
         THEN [ok |-> FALSE, value |-> acc, rest |-> <<>>]
    ELSE IF quote # BT /\ Head(text) = NL
         THEN [ok |-> FALSE, value |-> acc, rest |-> <<>>]
    ELSE ScanLiteral(Tail(text), quote, Append(acc, Head(text)))

IsBlank(line) == \A k \in 1..Len(line) : IsSpace(line[k])

\* The dedent tag: removes the indentation shared by the lines that have
\* content from every line, and trims one leading and one trailing blank line.
Dedent(content) ==
    LET lines == SplitLines(content)
        idx == {k \in 1..Len(lines) : ~IsBlank(lines[k])}
        indentOf(k) == Len(LeadingSpace(lines[k]))
        mindent == IF idx = {} THEN 0
                   ELSE indentOf(CHOOSE k \in idx : \A j \in idx : indentOf(k) <= indentOf(j))
        stripped == [k \in 1..Len(lines) |->
                        SliceFrom(lines[k], Min(mindent, indentOf(k)) + 1)]
        noHead == IF Len(stripped) > 0 /\ IsBlank(stripped[1])
                  THEN Tail(stripped) ELSE stripped
        noTail == IF Len(noHead) > 0 /\ IsBlank(noHead[Len(noHead)])
                  THEN SubSeq(noHead, 1, Len(noHead) - 1) ELSE noHead
    IN Join(noTail, <<NL>>)

\* line.search(/\S/): the 0-based position of the first character that is
\* not whitespace, -1 when there is none
SearchNonSpace(line) ==
    IF Len(LeadingSpace(line)) = Len(line) THEN -1 ELSE Len(LeadingSpace(line))

\* the number of spaces a line starts with: line.match(/^( +)/)
RECURSIVE LeadingBlanks(_)
LeadingBlanks(line) ==
    IF line # <<>> /\ Head(line) = SP THEN 1 + LeadingBlanks(Tail(line)) ELSE 0

\* line.replace(/^ {n}/, ""): n spaces taken off a line that starts with n
StripBlanks(line, n) == IF LeadingBlanks(line) >= n THEN SliceFrom(line, n + 1) ELSE line

\* s.replace(/\n+$/, "")
RECURSIVE StripTrailingNewlines(_)
StripTrailingNewlines(s) ==
    IF s # <<>> /\ s[Len(s)] = NL
    THEN StripTrailingNewlines(SubSeq(s, 1, Len(s) - 1)) ELSE s

\* lines() as src/lines.ts:36-46 has it, which the later lines() of the
\* file imports as ghaLines: the indentation of the second line is taken
\* off every line of the trimmed text, and a newline is put at the end
ghaLines(strInput) ==
    LET split == SplitLines(strInput)
        indent == IF Len(split) >= 2 THEN SearchNonSpace(split[2]) ELSE -1
        normalized == Trim(strInput) \o <<NL>>
        rows == SplitLines(normalized)
    IN IF indent > 0
       THEN Join([k \in 1..Len(rows) |-> StripBlanks(rows[k], indent)], <<NL>>)
       ELSE normalized

\* lines() of src/lines.ts:85-104 applied to the one string of a template
\* without substitutions
Lines(strInput) == StripTrailingNewlines(ghaLines(strInput))

\* the lines() of src/unnamed/part_004: a blank first line and a blank last
\* line are dropped, then the smallest indentation found on an indented
\* line is taken off the lines that have at least that much
LinesBlock(strInput) ==
    LET all == SplitLines(strInput)
        noFirst == IF Len(all) > 0 /\ IsBlank(all[1]) THEN Tail(all) ELSE all
        linesArray == IF Len(noFirst) > 0 /\ IsBlank(noFirst[Len(noFirst)])
                      THEN SubSeq(noFirst, 1, Len(noFirst) - 1) ELSE noFirst
        indented == {k \in 1..Len(linesArray) : LeadingBlanks(linesArray[k]) > 0}
        minIndent == IF indented = {} THEN 0
                     ELSE LeadingBlanks(linesArray[CHOOSE k \in indented :
                             \A j \in indented :
                                LeadingBlanks(linesArray[k]) <= LeadingBlanks(linesArray[j])])
    IN IF strInput = <<>> THEN <<>>
       ELSE IF linesArray = <<>> THEN <<>>
       ELSE IF minIndent > 0
       THEN Join([k \in 1..Len(linesArray) |->
                    IF LeadingBlanks(linesArray[k]) > 0
                    THEN StripBlanks(linesArray[k], minIndent) ELSE linesArray[k]],
                 <<NL>>)
       ELSE Join(linesArray, <<NL>>)

\* The string literals of a piece of code, in source order, each with its
\* kind and the value it evaluates to (a template is tagged with dedent).
RECURSIVE EvalLiterals(_, _)
EvalLiterals(text, acc) ==
    IF text = <<>> THEN [ok |-> TRUE, leaves |-> acc]
    ELSE IF Head(text) \in {DQ, SQ, BT}
         THEN LET r == ScanLiteral(Tail(text), Head(text), <<>>) IN
              IF ~r.ok THEN [ok |-> FALSE, leaves |-> acc]
              ELSE EvalLiterals(r.rest,
                      Append(acc,
                         IF Head(text) = BT
                         THEN [kind |-> "template", value |-> Dedent(r.value),
                               cooked |-> r.value]
                         ELSE [kind |-> "string", value |-> r.value,
                               cooked |-> r.value]))
    ELSE EvalLiterals(Tail(text), acc)

Evaluate(code) == EvalLiterals(code, <<>>)

\* The strings of a JSON value in document order, keys included; isValue
\* tells a string value from an object key.
RECURSIVE StringNodes(_)
RECURSIVE StringNodesOfItems(_, _)
StringNodes(value) ==
    CASE value.t = "str" -> << [text |-> value.v, isValue |-> TRUE] >>
      [] value.t = "null" -> <<>>
      [] OTHER -> StringNodesOfItems(value.t, value.v)

StringNodesOfItems(kind, items) ==
    IF items = <<>> THEN <<>>
    ELSE (IF kind = "arr" THEN StringNodes(items[1])
          ELSE << [text |-> items[1][1], isValue |-> FALSE] >> \o StringNodes(items[1][2]))
         \o StringNodesOfItems(kind, Tail(items))


(* ---------------------------------------------------------------------- *)
(* Properties                                                              *)
(* ---------------------------------------------------------------------- *)
Done == pc = "done"
\* the caller passed no callback of its own: neither beforePrettier nor
\* jsonStringifyReplacer
NoBeforePrettier == options.beforePrettier = <<>>
NoCustomReplacer == options.jsonStringifyReplacer = <<>>
NoHook == NoBeforePrettier /\ NoCustomReplacer
HasNewline(s) == Includes(s, <<NL>>)
ValueStrings == {n \in {StringNodes(json)[k] : k \in 1..Len(StringNodes(json))} : n.isValue}
LeafCountMatches(ev) == ev.ok /\ Len(ev.leaves) = Len(StringNodes(json))

\* C1 (as claimed): in every result of a conversion with useDedent, each
\* eligible string value is a template literal whose evaluation, trimmed,
\* equals the original string, trimmed.
C1_ConvertedRoundTrip ==
    (Done /\ useDedent /\ NoHook) =>
        LET ev == Evaluate(result.code)
            nodes == StringNodes(json)
        IN /\ LeafCountMatches(ev)
           /\ \A k \in 1..Len(nodes) :
                 (nodes[k].isValue /\ shouldConvertMultiline(nodes[k].text)) =>
                    /\ ev.leaves[k].kind = "template"
                    /\ Trim(ev.leaves[k].value) = Trim(nodes[k].text)

Risky(s) ==
    \/ Includes(s, <<BT>>)
    \/ Includes(s, <<DOLLAR>>)
    \/ Includes(s, <<BS>>)
    \/ Includes(s, <<CR, NL>>)

C3_RiskyNeverEligible ==
    \A n \in ValueStrings : Risky(n.text) => ~shouldConvertMultiline(n.text)

\* the shape C4 is about: empty first line, empty last line, or a last line
\* that ends in whitespace
EdgeBlank(s) == s # <<>> /\ (Head(s) = NL \/ IsSpace(s[Len(s)]))

AllWhitespace(s) == s # <<>> /\ IsBlank(s)

C6_WhitespaceNeverEligible ==
    (Done /\ useDedent /\ json.t = "str" /\ AllWhitespace(json.v)) =>
        /\ ~shouldConvertMultiline(json.v)
        /\ ~result.needsDedent

\* C6 (amended): a string of whitespace and newlines only is eligible
\* exactly when it holds a newline and no carriage return; converting it
\* alone then reports needsDedent = true.
C6_WhitespaceEligibleIffNewline ==
    (Done /\ useDedent /\ json.t = "str" /\ AllWhitespace(json.v)) =>
        LET eligible == HasNewline(json.v) /\ ~Includes(json.v, <<CR>>) IN
        /\ shouldConvertMultiline(json.v) = eligible
        /\ result.needsDedent = eligible

C6_Witness ==
    /\ Done /\ useDedent /\ json = Str(<<NL>>)
    /\ result.needsDedent

\* the strings C7 is about: printable characters, backslash and newline; at
\* least one newline; no dollar sign, no backtick, no backslash right before
\* a newline, no backslash at the end
C7Domain(s) ==
    /\ \A k \in 1..Len(s) : s[k] \notin {CR, TAB}
    /\ HasNewline(s)
    /\ ~Includes(s, <<DOLLAR>>)
    /\ ~Includes(s, <<BT>>)
    /\ ~Includes(s, <<BS, NL>>)
    /\ s[Len(s)] # BS

\* C7: every such string is eligible, and converting it with useDedent
\* reports needsDedent = true; a backslash inside a line does not block it.
C7_SafeStringsEligible ==
    /\ \A n \in ValueStrings : C7Domain(n.text) => shouldConvertMultiline(n.text)
    /\ (Done /\ useDedent /\ json.t = "str" /\ C7Domain(json.v)) => result.needsDedent

C7_Witness ==
    /\ Done /\ useDedent /\ json = Str(<<BS, "a", NL>>)
    /\ result.needsDedent

\* C8: with useDedent, needsDedent holds exactly when some string value of
\* the input is eligible, which is exactly when the pending list is not
\* empty, and exactly when the code holds a template literal.
C8_NeedsDedentIffEligible ==
    (Done /\ useDedent) =>
        /\ result.needsDedent = (\E n \in ValueStrings : shouldConvertMultiline(n.text))
        /\ result.needsDedent = (multilineStrings # <<>>)
        /\ result.needsDedent =
              (\E k \in 1..Len(Evaluate(result.code).leaves) :
                    Evaluate(result.code).leaves[k].kind = "template")

C8_Witness ==
    /\ Done /\ useDedent /\ json.t = "obj"
    /\ json.v[1][2].t = "arr"
    /\ result.needsDedent
    /\ Len(multilineStrings) = 1

\* C9: without useDedent no token is minted, needsDedent is false, and
\* every string is emitted as a plain string literal (newlines escaped)
\* that evaluates to the original string.
C9_NoDedentNoTokens ==
    (~useDedent /\ pc \notin {"idle", "stringify"}) =>
        /\ markerCount = 0
        /\ multilineStrings = <<>>
        /\ (Done /\ NoHook) =>
              LET ev == Evaluate(result.code)
                  nodes == StringNodes(json)
              IN /\ ~result.needsDedent
                 /\ LeafCountMatches(ev)
                 /\ \A k \in 1..Len(nodes) :
                       /\ ev.leaves[k].kind = "string"
                       /\ ev.leaves[k].value = nodes[k].text

C9_Witness ==
    /\ Done /\ ~useDedent /\ NoHook
    /\ \E n \in ValueStrings : shouldConvertMultiline(n.text)
    /\ ~result.needsDedent

\* C10 (as claimed): the code a conversion returns holds none of the tokens
\* it minted.
C10_AllTokensResolved ==
    Done => \A i \in 0..(markerCount - 1) :
                ~Includes(result.code, Marker(randomString, i))

(* ---------------------------------------------------------------------- *)
(* A call on its own                                                       *)
(* ---------------------------------------------------------------------- *)
\* Everything one call of jsonToJavascript(json, options) can settle with
\* when nothing else runs, under the marker prefix rs: the value it returns
\* for each layout the formatter may answer with, or the error it throws.
AloneResults(which, jsonArg, optionsArg, rs) ==
    LET usesPrettier == Default(optionsArg.usePrettier, TRUE)
        zero == [markerCount |-> 0, multilineStrings |-> <<>>]
        r == SerializeValue(which, optionsArg, rs, <<>>, jsonArg, zero, <<>>)
        wrapped == Wrap(optionsArg, r.text)
        rs2 == PrefixAfterBeforePrettier(optionsArg, rs)
        needs == r.markerCount > 0
        res == ResolveAll(optionsArg, rs2, wrapped, r.markerCount, r.multilineStrings, 0)
        rejected == {PrettierError(e) : e \in FormatErrors}
    IN IF which = "first"
       THEN IF ~res.ok THEN {MarkerNotFoundError(rs2, res.index)}
            ELSE IF usesPrettier
                 THEN {Returned(t, needs) : t \in FormatLayouts(res.text)} \cup rejected
                 ELSE {Returned(res.text, needs)}
       ELSE IF usesPrettier
            THEN {Returned(ResolveAllFormatFirst(optionsArg, rs2, t, r.markerCount,
                                                 r.multilineStrings, 0), needs) :
                     t \in FormatLayouts(wrapped)} \cup rejected
            ELSE {Returned(ResolveAllFormatFirst(optionsArg, rs2, wrapped, r.markerCount,
                                                 r.multilineStrings, 0), needs)}

\* a marker prefix that occurs in no input
FreshRandomString == <<"FRESH_MARKER_">>

Settled == pc \in {"done", "failed"}
SettledFormatFirst == pc \in {"ff_done", "ff_failed"}
NoDollar == \A k \in 1..Len(StringNodes(json)) : ~Includes(StringNodes(json)[k].text, <<DOLLAR>>)

\* C11 (as claimed): tokens never collide with content.  Whatever the keys
\* and strings of the value hold (the marker text followed by digits
\* included), a conversion returns the code it would return under a marker
\* prefix that occurs nowhere in the value: each resolution step changed the
\* token minted for its pending string and nothing else.  (Strings with a
\* dollar sign are left out: their splice goes wrong for another reason.)
C11_TokensNeverCollide ==
    (Done /\ useDedent /\ NoHook /\ NoDollar) =>
        result \in AloneResults("first", json, options, FreshRandomString)

\* C12 (as claimed): a resolution step that does not find its quoted token
\* in the text ends the call with an error; the call never goes on to return
\* code from which the pending string is missing.
C12_MissingTokenAborts ==
    [][ ( /\ pc \in {"resolve", "ff_resolve"}
          /\ index < markerCount
          /\ ~Includes(formatted, QuotedMarker(randomString, index)) )
        => ( /\ pc' \in {"failed", "ff_failed"}
             /\ result'.kind = "markerNotFound" ) ]_vars

\* C13: while format() is awaited, in either jsonToJavascript, the call
\* waits, goes on with a layout the formatter answered, or fails with an
\* error that carries the formatter's own error as its cause and a message
\* that suggests --usePrettier false; a failed call stays failed: no result,
\* no second format().
C13_FormatterErrorPropagates ==
    [][ /\ pc \in {"formatting", "ff_formatting"} =>
            \/ /\ pc' = pc
               /\ formatted' = formatted
               /\ result' = result
            \/ /\ pc' = (IF pc = "formatting" THEN "return" ELSE "ff_resolve")
               /\ formatted' \in FormatLayouts(formatted)
               /\ result' = NoResult
            \/ /\ pc' = (IF pc = "formatting" THEN "failed" ELSE "ff_failed")
               /\ result'.kind = "prettierFailed"
               /\ result'.code = <<>>
               /\ \E e \in FormatErrors :
                     /\ result'.cause = <<e>>
                     /\ result' = PrettierError(e)
               /\ Includes(result'.message,
                     <<"Failed to format code with prettier, consider turning off prettier with --usePrettier false">>)
        /\ pc \in {"failed", "ff_failed"} => (pc' = pc /\ result' = result) ]_vars

C13_Witness ==
    /\ pc = "failed"
    /\ usePrettier
    /\ markerCount > 0
    /\ result.kind = "prettierFailed"
    /\ result.cause = <<"SyntaxError">>

\* C14: two calls interleaved at the formatter await, under a marker prefix
\* nobody changes, each settle with a result the call can settle with when
\* it runs alone; their counters and pending lists are those of a call
\* that runs alone.
C14_ConcurrentCallsIndependent ==
    /\ Settled => result \in AloneResults("first", json, options, randomString)
    /\ SettledFormatFirst =>
          result \in AloneResults("formatFirst", json, options, randomString)
    /\ other.pc \in {"done", "failed"} =>
          other.result \in AloneResults(other.which, other.json, other.options,
                                        randomString)
    /\ other.pc # "idle" =>
          /\ other.markerCount = Len(other.multilineStrings)
          /\ other.multilineStrings =
                SerializeValue(other.which, other.options, randomString, <<>>, other.json,
                               [markerCount |-> 0, multilineStrings |-> <<>>],
                               <<>>).multilineStrings

C14_Witness ==
    /\ pc = "done" /\ result.needsDedent
    /\ other.pc = "done" /\ other.result.needsDedent
    /\ usePrettier /\ Default(other.options.usePrettier, TRUE)
    /\ other.which = "formatFirst"
    /\ json # other.json
    /\ Len(other.multilineStrings) = 2

\* C15 (as claimed): the tokens a call looks up are the tokens it minted:
\* when the resolution loop starts, the text is what serialization under
\* the prefix now in force produces, whatever the callbacks did.
C15_PrefixReadOnce ==
    (pc = "resolve" /\ index = 0 /\ markerCount > 0) =>
        formatted = Wrap(options, JsonStringify(options, randomString, json).text)

\* C16: a run without --help that lacks --inputFile or --outputFile never
\* reads the input and never writes the output, and it ends with a message
\* on the error stream and a non-zero status.
C16_MissingFlagsRefused ==
    (cliPc # "off" /\ ~argv.help /\ (argv.inputFile = <<>> \/ argv.outputFile = <<>>)) =>
        /\ ~files.read
        /\ files.output = <<>>
        /\ cliPc \in {"parsed", "exited"}
        /\ cliPc = "exited" =>
              /\ exitCode # <<>> /\ exitCode # <<0>>
              /\ stderr # <<>>
              /\ stdout = <<>>
              /\ ~argv.positionals =>
                    stderr = <<"--inputFile and --outputFile must be provided">>

C16_Witness ==
    /\ cliPc = "exited"
    /\ ~argv.help /\ ~argv.positionals
    /\ argv.inputFile # <<>> /\ argv.outputFile = <<>>
    /\ exitCode = <<1>>

\* C17 (as claimed): a run with --help, whatever else is on the command
\* line, prints the usage, exits with status zero and converts nothing.
C17_HelpAlwaysWins ==
    (cliPc = "exited" /\ argv.help) =>
        /\ exitCode = <<0>>
        /\ stdout = <<"Usage">>
        /\ ~files.read
        /\ files.output = <<>>

\* C18 (as claimed): a run that converts successfully writes result.code to
\* the output file and prints nothing on standard output.
C18_SuccessIsSilent ==
    (cliPc = "exited" /\ exitCode = <<0>> /\ ~argv.help) =>
        /\ files.output = <<result.code>>
        /\ stdout = <<>>

\* C19 (as claimed): with usePrettier the formatter runs before any token
\* is resolved: the text it is handed holds every token as a quoted string
\* literal and no template literal.
C19_FormatBeforeResolve ==
    (pc \in {"formatting", "ff_formatting"} /\ NoHook) =>
        /\ index = 0
        /\ \A i \in 0..(markerCount - 1) :
              Includes(formatted, QuotedMarker(randomString, i))
        /\ ~Includes(formatted, <<"dedent">>)

\* the text C20 describes for a token whose line is indented by indent
SplicedShape(opts, body, indent) ==
    Default(opts.dedentPrefix, DedentPrefixDefault) \o <<BT, NL>>
        \o indent \o <<SP, SP>>
        \o ReplaceAll(body, <<NL>>, <<NL>> \o indent \o <<SP, SP>>)
        \o <<NL>> \o indent \o <<BT>>
        \o Default(opts.dedentSuffix, DedentSuffixDefault)

\* C20 (as claimed): the text spliced in for token i is dedentPrefix,
\* backtick, newline, indent + two spaces, the escaped string with every
\* newline followed by indent + two spaces, newline, indent, backtick,
\* dedentSuffix: the closing backtick stands at the token line's own
\* indentation.
C20_SplicedLiteralShape ==
    /\ (pc = "resolve" /\ index < markerCount) =>
          LET s == multilineStrings[index + 1]
              indent == MarkerIndent(formatted, Marker(randomString, index))
          IN LinesExpression(options, s, indent)
                = SplicedShape(options, EscapeForTemplate(s), indent)
    /\ (pc = "ff_resolve" /\ index < markerCount) =>
          LET s == multilineStrings[index + 1]
              indent == MarkerIndent(formatted, Marker(randomString, index))
          IN LinesExpressionFormatFirst(options, s, indent)
                = SplicedShape(options, EscapeFormatFirst(s), indent)


\* the text s with the first occurrence of p replaced by exactly r
SpliceVerbatim(s, p, r) ==
    LET i == IndexOf(s, p) IN
    IF i = 0 THEN s
    ELSE SubSeq(s, 1, i - 1) \o r \o SliceFrom(s, i + Len(p))

\* C21: each resolution step puts exactly the computed replacement text
\* (dedentPrefix, the escaped and indented content, dedentSuffix) in place
\* of the quoted token; no character sequence in the string or in
\* dedentPrefix / dedentSuffix is read as a substitution pattern.
C21_SpliceIsVerbatim ==
    /\ (/\ pc = "resolve" /\ index < markerCount
        /\ Includes(formatted, QuotedMarker(randomString, index))) =>
          ResolveOne(options, randomString, formatted, multilineStrings[index + 1], index)
            = SpliceVerbatim(formatted, QuotedMarker(randomString, index),
                  LinesExpression(options, multilineStrings[index + 1],
                      MarkerIndent(formatted, Marker(randomString, index))))
    /\ (/\ pc = "ff_resolve" /\ index < markerCount
        /\ Includes(formatted, QuotedMarker(randomString, index))) =>
          ResolveOneFormatFirst(options, randomString, formatted,
                                multilineStrings[index + 1], index)
            = SpliceVerbatim(formatted, QuotedMarker(randomString, index),
                  LinesExpressionFormatFirst(options, multilineStrings[index + 1],
                      MarkerIndent(formatted, Marker(randomString, index))))

\* C22: a string the classifier lets through holds no backslash, backtick
\* or dollar, so the escaping applied to a pending string before it is
\* spliced leaves it as it is.
C22_EligibleNeedsNoEscaping ==
    \A i \in 1..Len(multilineStrings) :
        LET s == multilineStrings[i] IN
        /\ ~Includes(s, <<BS>>) /\ ~Includes(s, <<BT>>) /\ ~Includes(s, <<DOLLAR>>)
        /\ pc \in {"resolve", "formatting", "return", "done", "failed"} =>
              EscapeForTemplate(s) = s
        /\ pc \in {"ff_formatting", "ff_resolve", "ff_done", "ff_failed"} =>
              EscapeFormatFirst(s) = s

\* what a template literal with the body e denotes: the read stops at the
\* first unescaped backtick and fails on an unescaped ${
TemplateValue(e) == ScanLiteral(e \o <<BT>>, BT, <<>>)

\* the body e holds no unescaped backtick and no unescaped ${ and denotes s
DenotesExactly(e, s) ==
    LET r == TemplateValue(e) IN r.ok /\ r.rest = <<>> /\ r.value = s

\* C23: the escaping applied to a pending string loses nothing: read back
\* as a template literal body, the escaped text has no unescaped backtick
\* and no unescaped ${ and denotes the original string, also when the string
\* holds the text __TEMP_TEMPLATE_START__.
C23_EscapingLossFree ==
    \A i \in 1..Len(multilineStrings) :
        LET s == multilineStrings[i] IN
        /\ pc \in {"resolve", "formatting", "return", "done", "failed"} =>
              DenotesExactly(EscapeForTemplate(s), s)
        /\ pc \in {"ff_formatting", "ff_resolve", "ff_done", "ff_failed"} =>
              DenotesExactly(EscapeFormatFirst(s), s)

\* formatted holds the wrapped result of JSON.stringify and nothing has
\* touched it yet
Serialized ==
    \/ pc = "resolve" /\ index = 0
    \/ pc = "ff_formatting"
    \/ pc = "ff_resolve" /\ index = 0 /\ ~usePrettier

\* JSON.stringify(json, options.jsonStringifyReplacer, options.jsonStringifySpace)
PlainStringify(optionsArg, jsonArg) ==
    SerializeValue("plain", optionsArg, <<>>, <<>>, jsonArg, FreshLocals, <<>>).text

HasPropertyK == json.t = "obj" /\ \E e \in 1..Len(json.v) : json.v[e][1] = <<"k">>

\* C24: with a jsonStringifyReplacer, what is serialized for a property is
\* what the callback returns for it, as with a plain JSON.stringify
\* replacer: a property for which it returns undefined is left out, one for
\* which it returns null is emitted as null.
C24_CustomReplacerHonoured ==
    (Serialized /\ ~NoCustomReplacer /\ NoBeforePrettier) =>
        /\ ~useDedent =>
              formatted = Default(options.prefix, <<"(">>) \o PlainStringify(options, json)
                            \o Default(options.suffix, <<")">>)
        /\ (HasPropertyK /\ options.jsonStringifyReplacer = <<"omitK">>) =>
              ~Includes(formatted, SerializeKey(<<"k">>) \o <<":">>)
        /\ (HasPropertyK /\ options.jsonStringifyReplacer = <<"nullK">>) =>
              Includes(formatted, SerializeKey(<<"k">>) \o <<":">>
                          \o (IF Gap(options) = <<>> THEN <<>> ELSE <<SP>>) \o <<"null">>)
        /\ (HasPropertyK /\ options.jsonStringifyReplacer = <<"starK">>) =>
              Includes(formatted, SerializeKey(<<"k">>) \o <<":">>
                          \o (IF Gap(options) = <<>> THEN <<>> ELSE <<SP>>) \o Quote(<<"*">>))

\* C25: with usePrettier false the formatter is never called; with useDedent
\* off and no beforePrettier as well, the code returned is the prefix, the
\* text of JSON.stringify(value, replacer, space) and the suffix, where an
\* omitted prefix / suffix is "(" / ")" and an empty string that was passed
\* is used as it is.  Without a jsonStringifyReplacer the text is the plain
\* serialization of the value; with one it is the serialization under the
\* replacer the call builds from it.
C25_UnformattedIsPlainConcatenation ==
    /\ pc \in {"formatting", "ff_formatting"} => usePrettier
    /\ (/\ pc \in {"done", "ff_done"}
        /\ ~usePrettier /\ ~useDedent /\ NoBeforePrettier) =>
          /\ result.kind = "value"
          /\ ~result.needsDedent
          /\ result.code =
                (IF options.prefix = <<>> THEN <<"(">> ELSE options.prefix[1])
                \o (IF NoCustomReplacer THEN PlainStringify(options, json)
                    ELSE JsonStringify(options, randomString, json).text)
                \o (IF options.suffix = <<>> THEN <<")">> ELSE options.suffix[1])

\* a finished call without formatter and useDedent that was given the empty
\* string as prefix, and no suffix
C25_Witness ==
    /\ pc = "done" /\ ~usePrettier /\ ~useDedent /\ NoHook
    /\ options.prefix = << <<>> >> /\ options.suffix = <<>>
    /\ json = Str(<<"a", NL, "a">>)
    /\ result.code = <<DQ, "a", BS, "n", "a", DQ, ")">>

\* the definition of jsonToJavascript the call is running
RunningWhich ==
    IF pc \in {"ff_stringify", "ff_formatting", "ff_resolve", "ff_done", "ff_failed"}
    THEN "formatFirst" ELSE "first"

\* the string values of jsonArg that the replacer of the definition which
\* swaps for a token, in document order
EligibleTexts(which, optionsArg, jsonArg) ==
    LET nodes == StringNodes(jsonArg)
        eligible(n) == /\ n.isValue
                       /\ IF which = "formatFirst" THEN Includes(n.text, <<NL>>)
                          ELSE shouldConvertMultiline(n.text)
        picked == SelectSeq(nodes, eligible)
    IN IF Default(optionsArg.useDedent, FALSE)
       THEN [k \in 1..Len(picked) |-> picked[k].text]
       ELSE <<>>

\* C26: the counter equals the length of the pending list; the pending list
\* is the eligible string values in document order, one entry for every
\* occurrence, so equal strings get tokens of their own; the tokens in the
\* serialized text are numbered from 0 without gaps in that order; and a
\* call starts from 0 whatever an earlier or suspended call has minted.
C26_PlaceholderBookkeeping ==
    /\ pc \notin {"idle", "stringify", "ff_stringify"} =>
          /\ markerCount = Len(multilineStrings)
          /\ multilineStrings = EligibleTexts(RunningWhich, options, json)
    /\ pc \in {"idle", "stringify", "ff_stringify"} =>
          markerCount = 0 /\ multilineStrings = <<>>
    /\ (Serialized /\ NoHook) =>
          /\ \A i \in 0..(markerCount - 1) :
                Includes(formatted, QuotedMarker(randomString, i))
          /\ \A i \in 0..(markerCount - 2) :
                IndexOf(formatted, QuotedMarker(randomString, i))
                  < IndexOf(formatted, QuotedMarker(randomString, i + 1))
    /\ other.pc # "idle" =>
          /\ other.markerCount = Len(other.multilineStrings)
          /\ other.multilineStrings = EligibleTexts(other.which, other.options, other.json)

\* a call that minted two tokens for two occurrences of one string, next to
\* a second call that minted tokens of its own
C26_Witness ==
    /\ Serialized /\ markerCount = 2
    /\ multilineStrings[1] = multilineStrings[2]
    /\ other.pc # "idle" /\ other.markerCount = 3 - 2

\* jsonToJavascript(code, {useDedent: true, usePrettier: false}) run by the
\* definition which: what the call settles with
Reconverted(which, code) ==
    AloneResults(which, Str(code), Opt(<<TRUE>>, <<FALSE>>, <<>>, <<>>), randomString)

\* the code r2 holds one literal, and it evaluates to the text code: exactly
\* when it is a plain string, up to outer whitespace when it is a template
EvaluatesBackTo(r2, code) ==
    /\ r2.kind = "value"
    /\ LET ev == Evaluate(r2.code) IN
          /\ ev.ok
          /\ Len(ev.leaves) = 1
          /\ IF ev.leaves[1].kind = "template"
             THEN Trim(ev.leaves[1].value) = Trim(code)
             ELSE ev.leaves[1].value = code

\* C27: the code a conversion returned, passed as a string to another
\* conversion with useDedent, is converted without error, and the second
\* output evaluates to the first output again.
C27_ReconversionRoundTrips ==
    /\ (pc = "done" /\ result.kind = "value") =>
          \A r2 \in Reconverted("first", result.code) : EvaluatesBackTo(r2, result.code)
    /\ (pc = "ff_done" /\ result.kind = "value") =>
          \A r2 \in Reconverted("formatFirst", result.code) :
                EvaluatesBackTo(r2, result.code)

\* the strings of the value hold letters, spaces and newlines only
PlainValue ==
    \A k \in 1..Len(StringNodes(json)) :
        \A c \in 1..Len(StringNodes(json)[k].text) :
            StringNodes(json)[k].text[c] \in PlainAlphabet

\* C28: with the lines helper of the repository bound to the dedent tag,
\* every converted string evaluates to exactly the original string: leading
\* and trailing newlines, trailing spaces and the leading spaces of each
\* line are kept.  (Stated for values of letters, spaces and newlines.)
C28_LinesRoundTripExact ==
    (pc = "done" /\ result.kind = "value" /\ useDedent /\ NoHook /\ PlainValue
       /\ options.dedentPrefix = <<>> /\ options.dedentSuffix = <<>>) =>
        LET ev == Evaluate(result.code)
            nodes == StringNodes(json)
        IN /\ LeafCountMatches(ev)
           /\ \A k \in 1..Len(nodes) :
                 (nodes[k].isValue /\ shouldConvertMultiline(nodes[k].text)) =>
                    /\ ev.leaves[k].kind = "template"
                    /\ Lines(ev.leaves[k].cooked) = nodes[k].text

\* the same with the lines() of src/unnamed/part_004
C28_LinesBlockRoundTripExact ==
    (pc = "done" /\ result.kind = "value" /\ useDedent /\ NoHook /\ PlainValue
       /\ options.dedentPrefix = <<>> /\ options.dedentSuffix = <<>>) =>
        LET ev == Evaluate(result.code)
            nodes == StringNodes(json)
        IN /\ LeafCountMatches(ev)
           /\ \A k \in 1..Len(nodes) :
                 (nodes[k].isValue /\ shouldConvertMultiline(nodes[k].text)) =>
                    /\ ev.leaves[k].kind = "template"
                    /\ LinesBlock(ev.leaves[k].cooked) = nodes[k].text

\* the object keys of the value
KeyStrings == {n \in {StringNodes(json)[k] : k \in 1..Len(StringNodes(json))} : ~n.isValue}

\* no string value of the argument is eligible under the running definition
NoEligibleValue == EligibleTexts(RunningWhich, [options EXCEPT !.useDedent = <<TRUE>>], json) = <<>>

\* C29: only string values are candidates for conversion.  No token is
\* minted for an object key, also when the key holds a newline and
\* useDedent is on; every key is serialized as a JSON string literal; and a
\* value whose only strings with a newline are keys gives needsDedent false.
C29_KeysNeverConverted ==
    /\ pc \notin {"idle", "stringify", "ff_stringify"} =>
          /\ NoEligibleValue => (markerCount = 0 /\ multilineStrings = <<>>)
          /\ markerCount <= Cardinality({k \in 1..Len(StringNodes(json)) :
                                             StringNodes(json)[k].isValue})
    /\ (Serialized /\ NoBeforePrettier) =>
          \A n \in KeyStrings : Includes(formatted, Quote(n.text) \o <<":">>)
    /\ (pc \in {"done", "ff_done"} /\ result.kind = "value" /\ NoEligibleValue) =>
          /\ ~result.needsDedent
          /\ NoBeforePrettier =>
                \A n \in KeyStrings : Includes(result.code, Quote(n.text) \o <<":">>)

\* a finished conversion with useDedent of an object whose key holds a
\* newline and whose value does not
C29_Witness ==
    /\ pc = "done" /\ useDedent /\ NoHook
    /\ json = Obj(<< <<(<<"a", NL>>), Str(<<"a">>)>> >>)
    /\ ~result.needsDedent
    /\ Includes(result.code, <<DQ, "a", BS, "n", DQ, ":">>)

\* C30: a run of cli.ts writes the output file at most once, and only after
\* jsonToJavascript has resolved: the one step that touches the file finds
\* it unwritten, follows a conversion that returned, and writes the code
\* returned; a run that ends with an error (arguments refused, input
\* unreadable or not JSON, --prettierOptions not JSON, conversion rejected)
\* leaves the file unwritten.
C30_OutputAllOrNothing ==
    [][ /\ files'.output # files.output =>
              /\ files.output = <<>>
              /\ cliPc = "converting"
              /\ pc = "done" /\ result.kind = "value"
              /\ files'.output = <<result.code>>
              /\ exitCode' = <<0>>
        /\ exitCode' = <<1>> => files'.output = <<>>
        /\ (cliPc' = "exited" /\ argv'.help) => files'.output = <<>> ]_vars

\* a run whose conversion was rejected after the input was read: it ended
\* with status 1 and no output
C30_Witness ==
    /\ cliPc = "exited" /\ exitCode = <<1>>
    /\ pc = "failed" /\ result.kind = "prettierFailed"
    /\ files.read /\ files.output = <<>>
====
